---- MODULE Spec2Model ----
(***************************************************************************)
(* Task orchestration of the agent servers: AgentTaskManager               *)
(* (finala2e/task_manager.py) and MathAgentTaskManager                     *)
(* (notebooks/math_agent_a2a.py) on top of the in-memory task store, the   *)
(* push-notification store and the per-task SSE event queue.               *)
(***************************************************************************)
EXTENDS Integers, Sequences, FiniteSets, TLC

VARIABLES
    manager,                  \* which task manager class serves the requests
    notification_sender_auth, \* TRUE iff a PushNotificationSenderAuth was given
    tasks,                    \* task store: task id -> Task
    push_notification_infos,  \* task id -> registered push URL
    task_sse_subscribers,     \* task id -> event queue of the task
    calls,                    \* on_send_task calls suspended before agent.invoke
    runs,                     \* spawned _run_streaming_agent coroutines
    invocations,              \* number of agent.invoke / agent.stream calls made
    notifications,            \* task id -> states notified to its push URL, in order,
                              \* and whether a delivery failed
    response,                 \* what the last finished handler returned
    nreq                      \* number of requests received so far

vars == <<manager, notification_sender_auth, tasks, push_notification_infos,
          task_sse_subscribers, calls, runs, invocations, notifications,
          response, nreq>>

----------------------------------------------------------------------------
\* Bounds of the model.

\* requests received in one behaviour
MaxReqs == 2
\* operations applied to the task store on its own
MaxStoreOps == 4
\* increments one streaming run pulls from the agent
MaxStream == 2
\* agent outcomes handled by both paths, one after the other
MaxOutcomes == 3

----------------------------------------------------------------------------
\* Data.

TaskIds == {"t1"}

SUBMITTED == "submitted"
WORKING == "working"
INPUT_REQUIRED == "input-required"
COMPLETED == "completed"
FAILED == "failed"
CANCELED == "canceled"

TerminalStates == {COMPLETED, FAILED, CANCELED}

SUPPORTED_CONTENT_TYPES == {"text", "text/plain"}

None == "None"

\* the agent's answer text, carried by messages and artifacts
Content == "content"

TaskStatus(state, message) == [state |-> state, message |-> message]

\* pushNotification of a request: absent, or a config with its url
NoPush == [present |-> FALSE, url |-> ""]
PushConfig(url) == [present |-> TRUE, url |-> url]
Urls == {"", "http://verified", "http://verified-then-down", "http://unreachable"}
PushConfigs == {NoPush} \cup {PushConfig(u) : u \in Urls}

\* the parameters of a request; message.parts is given by the type of each part
Params(modes, push, parts) ==
    [acceptedOutputModes |-> modes, pushNotification |-> push, parts |-> parts]

\* the requests offered to the handlers: a text message with every push
\* config, output modes the agent does not support, and messages whose first
\* part is no text part or that have no part
RequestParams ==
    {Params({"text"}, p, <<"text">>) : p \in PushConfigs}
    \cup {Params({"image/png"}, p, <<"text">>) : p \in {NoPush, PushConfig("http://unreachable")}}
    \cup {Params({"text"}, NoPush, parts) : parts \in {<<"file">>, <<>>}}
    \cup {Params({"text"}, PushConfig("http://verified"), <<"file">>)}

Request(method, id, q) ==
    [method |-> method, id |-> id, acceptedOutputModes |-> q.acceptedOutputModes,
     pushNotification |-> q.pushNotification, parts |-> q.parts]

Requests ==
    {Request(m, id, q) : m \in {"send", "subscribe"}, id \in TaskIds, q \in RequestParams}

\* tasks/resubscribe carries the task id only
ResubscribeRequests ==
    {Request("resubscribe", id, Params({}, NoPush, <<>>)) : id \in TaskIds}

\* one increment / outcome of the agent
Increments == [is_task_complete : BOOLEAN, require_user_input : BOOLEAN]

----------------------------------------------------------------------------
\* Dictionaries (Python dict): a function whose DOMAIN is the set of keys.

Put(d, k, v) == [x \in (DOMAIN d) \cup {k} |-> IF x = k THEN v ELSE d[x]]

EmptyDict == [x \in {} |-> None]

----------------------------------------------------------------------------
\* Request checks of the task managers.

\* utils.are_modalities_compatible: the accepted output modes intersect the
\* supported content types
are_modalities_compatible(client_modes, server_modes) ==
    client_modes \cap server_modes # {}

\* _get_user_query: parts[0] must exist and be a TextPart
_get_user_query(parts) ==
    IF parts = <<>> THEN "IndexError"
    ELSE IF parts[1] # "text" THEN "ValueError"
    ELSE "query"

QueryRaises(parts) == _get_user_query(parts) \in {"IndexError", "ValueError"}

\* _validate_request without its check of the push URL
_validate_request_modes_only(r) ==
    IF ~are_modalities_compatible(r.acceptedOutputModes, SUPPORTED_CONTENT_TYPES)
    THEN "IncompatibleTypesError"
    ELSE None

\* _validate_request: the error it returns, or None
_validate_request(r) ==
    IF ~are_modalities_compatible(r.acceptedOutputModes, SUPPORTED_CONTENT_TYPES)
    THEN "IncompatibleTypesError"
    ELSE IF r.pushNotification.present /\ r.pushNotification.url = ""
    THEN "InvalidParamsError"
    ELSE None

----------------------------------------------------------------------------
\* Push notifications.

\* PushNotificationSenderAuth.verify_push_notification_url: the challenge is
\* echoed by the verified URLs only; never raises
verify_push_notification_url(url) == url \in {"http://verified", "http://verified-then-down"}

\* the URL accepts the notifications POSTed to it; one of the verified URLs
\* stops doing so after its verification
Reachable(url) == url = "http://verified"

\* set_push_notification_info without the verification of the URL
set_push_notification_info_unverified(infos, task_id, config) ==
    [ok |-> TRUE, infos |-> Put(infos, task_id, config.url)]

\* set_push_notification_info that stores the config before it verifies it
set_push_notification_info_stores_first(infos, task_id, config) ==
    IF (manager = "MathAgentTaskManager" \/ notification_sender_auth)
       /\ ~verify_push_notification_url(config.url)
    THEN [ok |-> FALSE, infos |-> Put(infos, task_id, config.url)]
    ELSE [ok |-> TRUE, infos |-> Put(infos, task_id, config.url)]

\* set_push_notification_info: [ok, infos] - whether it returned True, and the
\* push-config store afterwards
set_push_notification_info(infos, task_id, config) ==
    IF (manager = "MathAgentTaskManager" \/ notification_sender_auth)
       /\ ~verify_push_notification_url(config.url)
    THEN [ok |-> FALSE, infos |-> infos]
    ELSE [ok |-> TRUE, infos |-> Put(infos, task_id, config.url)]

\* the registration step of both handlers: only a present config is registered
register_push(infos, r) ==
    IF r.pushNotification.present
    THEN set_push_notification_info(infos, r.id, r.pushNotification)
    ELSE [ok |-> TRUE, infos |-> infos]

\* the notifications of a task: the states sent to its push URL, oldest
\* first, and whether a delivery failed
NoNotifications == [sent |-> <<>>, failed |-> FALSE]

\* PushNotificationSenderAuth.send_push_notification: one POST of the task in
\* the given state to the URL; a failed POST is logged and nothing else
send_push_notification(log, url, state) ==
    [sent |-> Append(log.sent, state), failed |-> log.failed \/ ~Reachable(url)]

\* send_task_notification that sends the notification again when the
\* delivery failed
send_task_notification_retries(sent, infos, task_id, state) ==
    IF task_id \notin DOMAIN infos THEN sent
    ELSE IF manager = "AgentTaskManager" /\ ~notification_sender_auth THEN sent
    ELSE IF Reachable(infos[task_id])
    THEN [sent EXCEPT ![task_id] = send_push_notification(@, infos[task_id], state)]
    ELSE [sent EXCEPT ![task_id] =
             send_push_notification(send_push_notification(@, infos[task_id], state),
                                    infos[task_id], state)]

\* send_task_notification: the notifications after notifying for the task in
\* the given state; nothing is sent without a push config or without a sender
send_task_notification(sent, infos, task_id, state) ==
    IF task_id \notin DOMAIN infos THEN sent
    ELSE IF manager = "AgentTaskManager" /\ ~notification_sender_auth THEN sent
    ELSE [sent EXCEPT ![task_id] = send_push_notification(@, infos[task_id], state)]

----------------------------------------------------------------------------
\* Task store (InMemoryTaskManager).

NewTask == [status |-> TaskStatus(SUBMITTED, None), history |-> <<>>, artifacts |-> <<>>]

\* upsert_task that stores a new task whether or not the id is known
upsert_task_overwrites(store, r) == Put(store, r.id, NewTask)

\* upsert_task: create with SUBMITTED and empty history, or leave as is
upsert_task(store, r) ==
    IF r.id \in DOMAIN store THEN store ELSE Put(store, r.id, NewTask)

\* update_store fails with a not-found condition for an unknown id
NotFound(store, task_id) == task_id \notin DOMAIN store

\* update_store that keeps the replaced status only as the history
update_store_rewrites_history(store, task_id, status, artifacts) ==
    IF NotFound(store, task_id) THEN store
    ELSE [store EXCEPT ![task_id] =
             [status |-> status,
              history |-> <<@.status>>,
              artifacts |-> @.artifacts \o artifacts]]

\* update_store that creates the task when the id is unknown
update_store_creates(store, task_id, status, artifacts) ==
    IF NotFound(store, task_id)
    THEN Put(store, task_id, [status |-> status, history |-> <<>>, artifacts |-> artifacts])
    ELSE [store EXCEPT ![task_id] =
             [status |-> status,
              history |-> Append(@.history, @.status),
              artifacts |-> @.artifacts \o artifacts]]

\* update_store that appends the new status, not the one it replaces, to the
\* history
update_store_appends_new(store, task_id, status, artifacts) ==
    IF NotFound(store, task_id) THEN store
    ELSE [store EXCEPT ![task_id] =
             [status |-> status,
              history |-> Append(@.history, status),
              artifacts |-> @.artifacts \o artifacts]]

\* update_store: set the status, append the artifacts, append the previous
\* status to the history; the store is left as it is for an unknown id
update_store(store, task_id, status, artifacts) ==
    IF NotFound(store, task_id) THEN store
    ELSE [store EXCEPT ![task_id] =
             [status |-> status,
              history |-> Append(@.history, @.status),
              artifacts |-> @.artifacts \o artifacts]]

----------------------------------------------------------------------------
\* Event queue of a task (InMemoryTaskManager SSE fan-out).

TaskStatusUpdateEvent(run, inc, status, final) ==
    [type |-> "status", state |-> status.state, final |-> final, run |-> run, inc |-> inc]

TaskArtifactUpdateEvent(run, inc) ==
    [type |-> "artifact", state |-> None, final |-> FALSE, run |-> run, inc |-> inc]

ErrorEvent(run, inc) ==
    [type |-> "error", state |-> None, final |-> FALSE, run |-> run, inc |-> inc]

\* the queue of a subscription: sub is the request that set it up, buf the
\* events not yet delivered, delivered the events its consumer received,
\* resumed_at the number of events received before the last resubscription
\* (-1 when there was none)
NewQueue(sub) ==
    [sub |-> sub, buf |-> <<>>, delivered |-> <<>>, consumer |-> "attached", closed |-> FALSE,
     resumed_at |-> -1]

Attached(queues, task_id) ==
    task_id \in DOMAIN queues /\ queues[task_id].consumer = "attached"

\* setup_sse_consumer(task_id, False): refused while a consumer is attached
AlreadySubscribed(queues, task_id) == Attached(queues, task_id)

setup_sse_consumer(queues, task_id, sub) == Put(queues, task_id, NewQueue(sub))

\* setup_sse_consumer(task_id, True): [raised, subs] - fails without a queue for
\* the task, else the consumer is attached to the existing backlog; on a closed
\* queue with nothing buffered its sequence ends at once
setup_sse_consumer_resubscribe(queues, task_id) ==
    IF task_id \notin DOMAIN queues THEN [raised |-> TRUE, subs |-> queues]
    ELSE [raised |-> FALSE,
          subs |-> [queues EXCEPT
                       ![task_id].consumer = IF queues[task_id].closed /\ queues[task_id].buf = <<>>
                                             THEN "ended" ELSE "attached",
                       ![task_id].resumed_at = Len(queues[task_id].delivered)]]

\* enqueue_events_for_sse that never closes the queue
enqueue_events_for_sse_never_closes(queues, task_id, event) ==
    IF ~Attached(queues, task_id) THEN [raised |-> FALSE, subs |-> queues]
    ELSE [raised |-> FALSE, subs |-> [queues EXCEPT ![task_id].buf = Append(@, event)]]

\* enqueue_events_for_sse that fails when the consumer detached
enqueue_events_for_sse_detached_raises(queues, task_id, event) ==
    IF task_id \notin DOMAIN queues THEN [raised |-> FALSE, subs |-> queues]
    ELSE IF queues[task_id].closed \/ queues[task_id].consumer = "detached"
    THEN [raised |-> TRUE, subs |-> queues]
    ELSE IF queues[task_id].consumer # "attached" THEN [raised |-> FALSE, subs |-> queues]
    ELSE [raised |-> FALSE,
          subs |-> [queues EXCEPT ![task_id].buf = Append(@, event),
                                  ![task_id].closed = (event.type = "status" /\ event.final)]]

\* enqueue_events_for_sse: [raised, subs] - a no-op once the consumer detached,
\* refused on a closed queue, else appended; a final status event closes
enqueue_events_for_sse(queues, task_id, event) ==
    IF task_id \notin DOMAIN queues THEN [raised |-> FALSE, subs |-> queues]
    ELSE IF queues[task_id].consumer = "detached" THEN [raised |-> FALSE, subs |-> queues]
    ELSE IF queues[task_id].closed THEN [raised |-> TRUE, subs |-> queues]
    ELSE IF queues[task_id].consumer # "attached" THEN [raised |-> FALSE, subs |-> queues]
    ELSE [raised |-> FALSE,
          subs |-> [queues EXCEPT ![task_id].buf = Append(@, event),
                                  ![task_id].closed = (event.type = "status" /\ event.final)]]

----------------------------------------------------------------------------
\* The agent.

Increment(complete, input) == [is_task_complete |-> complete, require_user_input |-> input]

\* A2EMathCurrencyAgent.stream: the increments it yields when it runs to its
\* end, given whether the graph was initialised and the number n of
\* intermediate tool messages
stream(graph, n) ==
    IF ~graph THEN <<Increment(FALSE, TRUE)>>
    ELSE [i \in 1..n |-> Increment(FALSE, FALSE)] \o <<Increment(TRUE, FALSE)>>

\* the increments such a stream is made of: intermediate ones and the last one
A2EIncrements == {stream(TRUE, 1)[i] : i \in 1..2}

\* the derivation without end_stream set for a completed increment
increment_status_never_final(item) ==
    IF ~item.is_task_complete /\ ~item.require_user_input
    THEN [status |-> TaskStatus(WORKING, Content), artifacts |-> <<>>, end_stream |-> FALSE]
    ELSE IF item.require_user_input
    THEN [status |-> TaskStatus(INPUT_REQUIRED, Content), artifacts |-> <<>>, end_stream |-> TRUE]
    ELSE [status |-> TaskStatus(COMPLETED, None), artifacts |-> <<Content>>, end_stream |-> FALSE]

\* _run_streaming_agent, per increment: the status, the artifacts and the
\* final flag derived from it
increment_status(item) ==
    IF ~item.is_task_complete /\ ~item.require_user_input
    THEN [status |-> TaskStatus(WORKING, Content), artifacts |-> <<>>, end_stream |-> FALSE]
    ELSE IF item.require_user_input
    THEN [status |-> TaskStatus(INPUT_REQUIRED, Content), artifacts |-> <<>>, end_stream |-> TRUE]
    ELSE [status |-> TaskStatus(COMPLETED, None), artifacts |-> <<Content>>, end_stream |-> TRUE]

\* _process_agent_response that decides by is_task_complete
response_status_by_completion(agent_response) ==
    IF ~agent_response.is_task_complete
    THEN [status |-> TaskStatus(INPUT_REQUIRED, Content), artifacts |-> <<>>]
    ELSE [status |-> TaskStatus(COMPLETED, None), artifacts |-> <<Content>>]

\* _process_agent_response: the status and the artifacts derived from the
\* agent's response
response_status(agent_response) ==
    IF agent_response.require_user_input
    THEN [status |-> TaskStatus(INPUT_REQUIRED, Content), artifacts |-> <<>>]
    ELSE [status |-> TaskStatus(COMPLETED, None), artifacts |-> <<Content>>]

----------------------------------------------------------------------------
\* Responses.

NoRequest ==
    [method |-> None, id |-> None, acceptedOutputModes |-> {},
     pushNotification |-> NoPush, parts |-> <<>>]

\* the task a response carries: its state, the message of its status, its
\* artifacts, and the require_user_input of the agent's response it was
\* derived from
NoResult ==
    [state |-> None, message |-> None, artifacts |-> <<>>, require_user_input |-> FALSE]

TaskResult(task, agent_response) ==
    [state |-> task.status.state, message |-> task.status.message,
     artifacts |-> task.artifacts, require_user_input |-> agent_response.require_user_input]

\* what a handler returned: outcome is "result", "stream", an error name, or
\* "raised" when an exception left the handler; agent tells whether the agent
\* was invoked; created whether the handler created the task; written the
\* states the handler wrote to the store; artifacts the artifacts it appended;
\* result the task of a SendTaskResponse
Response(req, r, outcome, agent, created, written, artifacts) ==
    [req |-> req, request |-> r, outcome |-> outcome, agent |-> agent,
     created |-> created, written |-> written, artifacts |-> artifacts,
     result |-> NoResult]

----------------------------------------------------------------------------
\* Initial state.

Init ==
    /\ manager \in {"AgentTaskManager", "MathAgentTaskManager"}
    /\ notification_sender_auth \in BOOLEAN
    /\ manager = "MathAgentTaskManager" => notification_sender_auth
    /\ tasks = EmptyDict
    /\ push_notification_infos = EmptyDict
    /\ task_sse_subscribers = EmptyDict
    /\ calls = {}
    /\ runs = {}
    /\ invocations = 0
    /\ notifications = [id \in TaskIds |-> NoNotifications]
    /\ response = Response(0, NoRequest, None, "not_invoked", FALSE, <<>>, 0)
    /\ nreq = 0

config == <<manager, notification_sender_auth>>

----------------------------------------------------------------------------
\* on_send_task.

\* on_send_task up to the suspension before the agent is invoked: validation,
\* push registration, upsert, WORKING, notification; the suspended call keeps
\* the request, whether it created the task, and the length the history had
\* after its update_store (wrote_at)
on_send_task(r) ==
    /\ nreq < MaxReqs
    /\ r.method = "send"
    /\ nreq' = nreq + 1
    /\ LET validation_error == _validate_request(r)
           reg == register_push(push_notification_infos, r)
           task == update_store(upsert_task(tasks, r), r.id, TaskStatus(WORKING, None), <<>>)
       IN  IF validation_error # None
           THEN /\ response' = Response(nreq + 1, r, validation_error, "not_invoked", FALSE, <<>>, 0)
                /\ UNCHANGED <<tasks, push_notification_infos, notifications, calls>>
           ELSE IF ~reg.ok
           THEN /\ response' = Response(nreq + 1, r, "InvalidParamsError", "not_invoked", FALSE, <<>>, 0)
                /\ push_notification_infos' = reg.infos
                /\ UNCHANGED <<tasks, notifications, calls>>
           ELSE /\ push_notification_infos' = reg.infos
                /\ tasks' = task
                /\ notifications' = send_task_notification(notifications, reg.infos, r.id, WORKING)
                /\ calls' = calls \cup {[req |-> nreq + 1, request |-> r,
                                         created |-> r.id \notin DOMAIN tasks,
                                         wrote_at |-> Len(task[r.id].history)]}
                /\ UNCHANGED response
    /\ UNCHANGED <<config, task_sse_subscribers, runs, invocations>>

\* what the except clause around agent.invoke does with the exception:
\* AgentTaskManager returns InternalError, MathAgentTaskManager raises ValueError
invoke_except ==
    IF manager = "AgentTaskManager" THEN "InternalError" ELSE "raised"

\* on_send_task whose except clause writes FAILED to the store
on_send_task_invoke_marks_failed(c, raises, agent_response) ==
    /\ c \in calls
    /\ calls' = calls \ {c}
    /\ LET r == c.request
           m == response_status(agent_response)
       IN  IF QueryRaises(r.parts)
           THEN /\ response' = Response(c.req, r, "raised", "not_invoked", c.created, <<WORKING>>, 0)
                /\ UNCHANGED <<tasks, notifications, invocations>>
           ELSE IF raises
           THEN /\ response' = Response(c.req, r, invoke_except, "raised", c.created,
                                        <<WORKING, FAILED>>, 0)
                /\ tasks' = update_store(tasks, r.id, TaskStatus(FAILED, None), <<>>)
                /\ invocations' = invocations + 1
                /\ UNCHANGED notifications
           ELSE /\ tasks' = update_store(tasks, r.id, m.status, m.artifacts)
                /\ notifications' = send_task_notification(notifications, push_notification_infos,
                                                           r.id, m.status.state)
                /\ invocations' = invocations + 1
                /\ response' = [Response(c.req, r, "result", "returned", c.created,
                                         <<WORKING, m.status.state>>, Len(m.artifacts))
                                   EXCEPT !.result = TaskResult(tasks'[r.id], agent_response)]
    /\ UNCHANGED <<config, push_notification_infos, task_sse_subscribers, runs, nreq>>

\* on_send_task from the query extraction on: agent.invoke,
\* _process_agent_response, the return
on_send_task_invoke(c, raises, agent_response) ==
    /\ c \in calls
    /\ calls' = calls \ {c}
    /\ LET r == c.request
           m == response_status(agent_response)
       IN  IF QueryRaises(r.parts)
           THEN /\ response' = Response(c.req, r, "raised", "not_invoked", c.created, <<WORKING>>, 0)
                /\ UNCHANGED <<tasks, notifications, invocations>>
           ELSE IF raises
           THEN /\ response' = Response(c.req, r, invoke_except, "raised", c.created, <<WORKING>>, 0)
                /\ invocations' = invocations + 1
                /\ UNCHANGED <<tasks, notifications>>
           ELSE /\ tasks' = update_store(tasks, r.id, m.status, m.artifacts)
                /\ notifications' = send_task_notification(notifications, push_notification_infos,
                                                           r.id, m.status.state)
                /\ invocations' = invocations + 1
                /\ response' = [Response(c.req, r, "result", "returned", c.created,
                                         <<WORKING, m.status.state>>, Len(m.artifacts))
                                   EXCEPT !.result = TaskResult(tasks'[r.id], agent_response)]
    /\ UNCHANGED <<config, push_notification_infos, task_sse_subscribers, runs, nreq>>

----------------------------------------------------------------------------
\* on_send_task_subscribe and the streaming run it spawns.

\* a spawned _run_streaming_agent coroutine: pc is "spawned", "streaming",
\* "done" (the agent's stream ended), "failed" (an exception was caught and the
\* error event enqueued) or "crashed" (an exception left the coroutine);
\* pulled counts the increments pulled, last is the state the last one mapped
\* to, conforms tells whether the increments pulled so far are a prefix of a
\* stream of A2EMathCurrencyAgent with its graph initialised; raised names the
\* place of the first exception; stored, notified and enqueued count the
\* increments whose update_store, send_task_notification and event enqueues
\* the run has performed; pc is "notifying" while the run is suspended in the
\* delivery of a push notification
NewRun(req, r, fresh) ==
    [req |-> req, id |-> r.id, parts |-> r.parts, fresh |-> fresh, pc |-> "spawned",
     pulled |-> 0, last |-> None, conforms |-> TRUE, raised |-> None,
     error_enqueued |-> FALSE, stored |-> 0, notified |-> 0, enqueued |-> 0]

\* on_send_task_subscribe that spawns the run without having set up the
\* consumer
on_send_task_subscribe_no_consumer(r) ==
    /\ nreq < MaxReqs
    /\ r.method = "subscribe"
    /\ nreq' = nreq + 1
    /\ LET error == _validate_request(r)
           upserted == upsert_task(tasks, r)
           created == r.id \notin DOMAIN tasks
           reg == register_push(push_notification_infos, r)
       IN  IF error # None
           THEN /\ response' = Response(nreq + 1, r, error, "not_invoked", FALSE, <<>>, 0)
                /\ UNCHANGED <<tasks, push_notification_infos, task_sse_subscribers, runs>>
           ELSE IF ~reg.ok
           THEN /\ tasks' = upserted
                /\ response' = Response(nreq + 1, r, "InvalidParamsError", "not_invoked",
                                        created, <<>>, 0)
                /\ push_notification_infos' = reg.infos
                /\ UNCHANGED <<task_sse_subscribers, runs>>
           ELSE /\ tasks' = upserted
                /\ push_notification_infos' = reg.infos
                /\ runs' = runs \cup {NewRun(nreq + 1, r, created)}
                /\ response' = Response(nreq + 1, r, "stream", "not_invoked", created, <<>>, 0)
                /\ UNCHANGED task_sse_subscribers
    /\ UNCHANGED <<config, calls, invocations, notifications>>

\* on_send_task_subscribe that spawns the run before it registers the push
\* config and sets up the consumer
on_send_task_subscribe_spawns_first(r) ==
    /\ nreq < MaxReqs
    /\ r.method = "subscribe"
    /\ nreq' = nreq + 1
    /\ LET error == _validate_request(r)
           upserted == upsert_task(tasks, r)
           created == r.id \notin DOMAIN tasks
           reg == register_push(push_notification_infos, r)
       IN  IF error # None
           THEN /\ response' = Response(nreq + 1, r, error, "not_invoked", FALSE, <<>>, 0)
                /\ UNCHANGED <<tasks, push_notification_infos, task_sse_subscribers, runs>>
           ELSE IF ~reg.ok
           THEN /\ tasks' = upserted
                /\ response' = Response(nreq + 1, r, "InvalidParamsError", "not_invoked",
                                        created, <<>>, 0)
                /\ push_notification_infos' = reg.infos
                /\ runs' = runs \cup {NewRun(nreq + 1, r, created)}
                /\ UNCHANGED task_sse_subscribers
           ELSE IF AlreadySubscribed(task_sse_subscribers, r.id)
           THEN /\ tasks' = upserted
                /\ push_notification_infos' = reg.infos
                /\ response' = Response(nreq + 1, r, "InternalError", "not_invoked",
                                        created, <<>>, 0)
                /\ runs' = runs \cup {NewRun(nreq + 1, r, created)}
                /\ UNCHANGED task_sse_subscribers
           ELSE /\ tasks' = upserted
                /\ push_notification_infos' = reg.infos
                /\ task_sse_subscribers' = setup_sse_consumer(task_sse_subscribers, r.id, nreq + 1)
                /\ runs' = runs \cup {NewRun(nreq + 1, r, created)}
                /\ response' = Response(nreq + 1, r, "stream", "not_invoked", created, <<>>, 0)
    /\ UNCHANGED <<config, calls, invocations, notifications>>

on_send_task_subscribe(r) ==
    /\ nreq < MaxReqs
    /\ r.method = "subscribe"
    /\ nreq' = nreq + 1
    /\ LET error == _validate_request(r)
           upserted == upsert_task(tasks, r)
           created == r.id \notin DOMAIN tasks
           reg == register_push(push_notification_infos, r)
       IN  IF error # None
           THEN /\ response' = Response(nreq + 1, r, error, "not_invoked", FALSE, <<>>, 0)
                /\ UNCHANGED <<tasks, push_notification_infos, task_sse_subscribers, runs>>
           ELSE IF ~reg.ok
           THEN /\ tasks' = upserted
                /\ response' = Response(nreq + 1, r, "InvalidParamsError", "not_invoked",
                                        created, <<>>, 0)
                /\ push_notification_infos' = reg.infos
                /\ UNCHANGED <<task_sse_subscribers, runs>>
           ELSE IF AlreadySubscribed(task_sse_subscribers, r.id)
           THEN /\ tasks' = upserted
                /\ push_notification_infos' = reg.infos
                /\ response' = Response(nreq + 1, r, "InternalError", "not_invoked",
                                        created, <<>>, 0)
                /\ UNCHANGED <<task_sse_subscribers, runs>>
           ELSE /\ tasks' = upserted
                /\ push_notification_infos' = reg.infos
                /\ task_sse_subscribers' = setup_sse_consumer(task_sse_subscribers, r.id, nreq + 1)
                /\ runs' = runs \cup {NewRun(nreq + 1, r, created)}
                /\ response' = Response(nreq + 1, r, "stream", "not_invoked", created, <<>>, 0)
    /\ UNCHANGED <<config, calls, invocations, notifications>>

\* the except clause of _run_streaming_agent: enqueue the error event of the
\* increment inc; the run ends "failed", or "crashed" when that enqueue raises
\* too
run_except(run, queues, place, inc) ==
    LET e == enqueue_events_for_sse(queues, run.id, ErrorEvent(run.req, inc))
    IN  [subs |-> e.subs,
         run |-> [run EXCEPT !.pc = IF e.raised THEN "crashed" ELSE "failed",
                             !.raised = place,
                             !.error_enqueued = ~e.raised]]

\* the events of an increment with the status event enqueued first
increment_events_status_first(req, inc, m) ==
    <<TaskStatusUpdateEvent(req, inc, m.status, m.end_stream)>>
    \o (IF m.artifacts # <<>> THEN <<TaskArtifactUpdateEvent(req, inc)>> ELSE <<>>)

\* the events _run_streaming_agent enqueues for an increment, in its order:
\* the artifact event if an artifact was produced, then the status event
increment_events(req, inc, m) ==
    (IF m.artifacts # <<>> THEN <<TaskArtifactUpdateEvent(req, inc)>> ELSE <<>>)
    \o <<TaskStatusUpdateEvent(req, inc, m.status, m.end_stream)>>

\* consecutive awaits of enqueue_events_for_sse: the first that raises ends them
RECURSIVE enqueue_all(_, _, _)
enqueue_all(queues, task_id, events) ==
    IF events = <<>> THEN [raised |-> FALSE, subs |-> queues]
    ELSE LET e == enqueue_events_for_sse(queues, task_id, Head(events))
         IN  IF e.raised THEN e ELSE enqueue_all(e.subs, task_id, Tail(events))

\* the run after it pulled item from the agent's stream
Pull(run, item) ==
    [run EXCEPT !.pulled = @ + 1,
                !.last = increment_status(item).status.state,
                !.conforms = /\ run.conforms
                             /\ run.last \in {None, WORKING}
                             /\ item \in A2EIncrements]

\* _run_streaming_agent starts: the query is extracted outside the try block,
\* then agent.stream is called
_run_streaming_agent(run) ==
    /\ run \in runs
    /\ run.pc = "spawned"
    /\ IF QueryRaises(run.parts)
       THEN /\ runs' = (runs \ {run}) \cup {[run EXCEPT !.pc = "crashed", !.raised = "query"]}
            /\ UNCHANGED invocations
       ELSE /\ runs' = (runs \ {run}) \cup {[run EXCEPT !.pc = "streaming"]}
            /\ invocations' = invocations + 1
    /\ UNCHANGED <<config, tasks, push_notification_infos, task_sse_subscribers, calls,
                   notifications, response, nreq>>

\* the effects of one pass of the async-for body with the events enqueued
\* first and the store updated last
increment_effects_store_last ==
    <<"enqueue_events_for_sse", "send_task_notification", "update_store">>

\* the effects of one pass of the async-for body, in the order of its
\* statements
increment_effects ==
    <<"update_store", "send_task_notification", "enqueue_events_for_sse">>

\* the effects up to the suspension in the delivery of the push notification,
\* and those after it
BeforeSuspension(effects) ==
    SubSeq(effects, 1, CHOOSE i \in 1..Len(effects) : effects[i] = "send_task_notification")

AfterSuspension(effects) ==
    SubSeq(effects, Len(BeforeSuspension(effects)) + 1, Len(effects))

\* what a pass works on: the stores, the run and the place of an exception
Pass(store, sent, queues, run) ==
    [tasks |-> store, notifications |-> sent, subs |-> queues, run |-> run, raised |-> None]

\* one statement of the pass for the increment mapped to m; an exception
\* skips the statements behind it
apply_effect(effect, st, m) ==
    IF st.raised # None THEN st
    ELSE IF effect = "update_store"
    THEN IF NotFound(st.tasks, st.run.id)
         THEN [st EXCEPT !.raised = "update_store"]
         ELSE [st EXCEPT !.tasks = update_store(st.tasks, st.run.id, m.status, m.artifacts),
                         !.run.stored = @ + 1]
    ELSE IF effect = "send_task_notification"
    THEN [st EXCEPT !.notifications = send_task_notification(st.notifications,
                                          push_notification_infos, st.run.id, m.status.state),
                    !.run.notified = @ + 1]
    ELSE LET e == enqueue_all(st.subs, st.run.id, increment_events(st.run.req, st.run.pulled, m))
         IN  IF e.raised
             THEN [st EXCEPT !.subs = e.subs, !.raised = "enqueue"]
             ELSE [st EXCEPT !.subs = e.subs, !.run.enqueued = @ + 1]

RECURSIVE apply_effects(_, _, _)
apply_effects(effects, st, m) ==
    IF effects = <<>> THEN st
    ELSE apply_effects(Tail(effects), apply_effect(Head(effects), st, m), m)

\* the statements of a pass of run, which has pulled its increment, and, when
\* one raised, the except clause; next is the position of the run when none
\* raised
run_pass(run, pulled, effects, m, next) ==
    LET st == apply_effects(effects, Pass(tasks, notifications, task_sse_subscribers, pulled), m)
        x == run_except(st.run, st.subs, st.raised, pulled.pulled)
    IN  /\ tasks' = st.tasks
        /\ notifications' = st.notifications
        /\ IF st.raised # None
           THEN /\ task_sse_subscribers' = x.subs
                /\ runs' = (runs \ {run}) \cup {x.run}
           ELSE /\ task_sse_subscribers' = st.subs
                /\ runs' = (runs \ {run}) \cup {[st.run EXCEPT !.pc = next]}

\* send_task_notification delivers a notification, which suspends the caller,
\* when a push config is registered for the task and the sender is present
Delivers(infos, task_id) ==
    send_task_notification(notifications, infos, task_id, WORKING) # notifications

\* one pass of the async-for body: the agent yields item; the statements up to
\* the suspension in the delivery of the push notification, or all of them
\* when nothing is sent
stream_item(run, item) ==
    /\ run \in runs
    /\ run.pc = "streaming"
    /\ run.pulled < MaxStream
    /\ IF Delivers(push_notification_infos, run.id)
       THEN run_pass(run, Pull(run, item), BeforeSuspension(increment_effects),
                     increment_status(item), "notifying")
       ELSE run_pass(run, Pull(run, item), increment_effects,
                     increment_status(item), "streaming")
    /\ UNCHANGED <<config, push_notification_infos, calls, invocations, response, nreq>>

\* the increment the suspended pass of the run works on
pending(run) ==
    increment_status(CHOOSE i \in Increments : increment_status(i).status.state = run.last)

\* the pass resumes after the delivery of the push notification: the
\* statements behind it
stream_item_resume(run) ==
    /\ run \in runs
    /\ run.pc = "notifying"
    /\ run_pass(run, run, AfterSuspension(increment_effects), pending(run), "streaming")
    /\ UNCHANGED <<config, push_notification_infos, calls, invocations, response, nreq>>

\* the agent's stream raises at the next pull
stream_raise(run) ==
    /\ run \in runs
    /\ run.pc = "streaming"
    /\ LET x == run_except(run, task_sse_subscribers, "stream", run.pulled + 1)
       IN  /\ task_sse_subscribers' = x.subs
           /\ runs' = (runs \ {run}) \cup {x.run}
    /\ UNCHANGED <<config, tasks, push_notification_infos, calls, invocations,
                   notifications, response, nreq>>

\* the agent's stream ends: the async-for loop and the run end
stream_end(run) ==
    /\ run \in runs
    /\ run.pc = "streaming"
    /\ runs' = (runs \ {run}) \cup {[run EXCEPT !.pc = "done"]}
    /\ UNCHANGED <<config, tasks, push_notification_infos, task_sse_subscribers, calls,
                   invocations, notifications, response, nreq>>

----------------------------------------------------------------------------
\* The SSE consumer.

\* dequeue_events_for_sse delivers the next event; the sequence ends after the
\* event marked final
dequeue_events_for_sse(task_id) ==
    /\ Attached(task_sse_subscribers, task_id)
    /\ task_sse_subscribers[task_id].buf # <<>>
    /\ LET event == Head(task_sse_subscribers[task_id].buf)
       IN  task_sse_subscribers' =
               [task_sse_subscribers EXCEPT
                   ![task_id].buf = Tail(@),
                   ![task_id].delivered = Append(@, event),
                   ![task_id].consumer = IF event.type = "status" /\ event.final
                                         THEN "ended" ELSE "attached"]
    /\ UNCHANGED <<config, tasks, push_notification_infos, calls, runs, invocations,
                   notifications, response, nreq>>

\* the client drops its connection: the consumer detaches
consumer_detach(task_id) ==
    /\ Attached(task_sse_subscribers, task_id)
    /\ task_sse_subscribers' = [task_sse_subscribers EXCEPT ![task_id].consumer = "detached"]
    /\ UNCHANGED <<config, tasks, push_notification_infos, calls, runs, invocations,
                   notifications, response, nreq>>

----------------------------------------------------------------------------
\* on_resubscribe_to_task.

\* the consumer setup of on_resubscribe_to_task with the resubscribe flag left
\* False: a new queue, refused while a consumer is attached
on_resubscribe_setup_not_flagged(queues, task_id, sub) ==
    IF AlreadySubscribed(queues, task_id) THEN [raised |-> TRUE, subs |-> queues]
    ELSE [raised |-> FALSE, subs |-> setup_sse_consumer(queues, task_id, sub)]

\* the consumer setup of on_resubscribe_to_task: setup_sse_consumer(id, True)
on_resubscribe_setup(queues, task_id, sub) ==
    setup_sse_consumer_resubscribe(queues, task_id)

\* on_resubscribe_to_task without its except clause: the exception of the
\* setup leaves the handler
on_resubscribe_to_task_uncaught(r) ==
    /\ nreq < MaxReqs
    /\ r.method = "resubscribe"
    /\ nreq' = nreq + 1
    /\ LET s == on_resubscribe_setup(task_sse_subscribers, r.id, nreq + 1)
       IN  /\ task_sse_subscribers' = s.subs
           /\ response' = Response(nreq + 1, r, IF s.raised THEN "raised" ELSE "stream",
                                   "not_invoked", FALSE, <<>>, 0)
    /\ UNCHANGED <<config, tasks, push_notification_infos, calls, runs, invocations,
                   notifications>>

\* on_resubscribe_to_task: the stream of the re-attached consumer, or
\* InternalError when the setup raised
on_resubscribe_to_task(r) ==
    /\ nreq < MaxReqs
    /\ r.method = "resubscribe"
    /\ nreq' = nreq + 1
    /\ LET s == on_resubscribe_setup(task_sse_subscribers, r.id, nreq + 1)
       IN  /\ task_sse_subscribers' = s.subs
           /\ response' = Response(nreq + 1, r, IF s.raised THEN "InternalError" ELSE "stream",
                                   "not_invoked", FALSE, <<>>, 0)
    /\ UNCHANGED <<config, tasks, push_notification_infos, calls, runs, invocations,
                   notifications>>

----------------------------------------------------------------------------

\* the requests offered to a manager: a manager without a sender neither
\* verifies nor notifies a URL, so one URL stands for all of them
Offered ==
    {r \in Requests : notification_sender_auth \/ ~verify_push_notification_url(r.pushNotification.url)}

Next ==
    \/ \E r \in Offered : on_send_task(r)
    \/ \E c \in calls, raises \in BOOLEAN, a \in Increments : on_send_task_invoke(c, raises, a)
    \/ \E r \in Offered : on_send_task_subscribe(r)
    \/ \E run \in runs : _run_streaming_agent(run)
    \/ \E run \in runs, item \in Increments : stream_item(run, item)
    \/ \E run \in runs : stream_item_resume(run)
    \/ \E run \in runs : stream_raise(run)
    \/ \E run \in runs : stream_end(run)
    \/ \E id \in TaskIds : dequeue_events_for_sse(id)
    \/ \E id \in TaskIds : consumer_detach(id)
    \/ \E r \in ResubscribeRequests : on_resubscribe_to_task(r)

Spec == Init /\ [][Next]_vars

----------------------------------------------------------------------------
\* The task store on its own: upsert_task and update_store applied to any id,
\* known or not.

StoreIds == {"t1", "t2"}

StoreStatuses ==
    {TaskStatus(WORKING, None), TaskStatus(INPUT_REQUIRED, Content), TaskStatus(COMPLETED, None)}

StoreRequest(op, id) == Request(op, id, Params({}, NoPush, <<>>))

StoreInit ==
    /\ Init
    /\ manager = "AgentTaskManager"
    /\ ~notification_sender_auth

\* upsert_task(params); the response tells whether the task was created
store_upsert_task(id) ==
    /\ nreq < MaxStoreOps
    /\ nreq' = nreq + 1
    /\ tasks' = upsert_task(tasks, StoreRequest("upsert_task", id))
    /\ response' = Response(nreq + 1, StoreRequest("upsert_task", id), "task", "not_invoked",
                            id \notin DOMAIN tasks, <<>>, 0)
    /\ UNCHANGED <<config, push_notification_infos, task_sse_subscribers, calls, runs,
                   invocations, notifications>>

\* update_store(id, status, artifacts); the response tells whether it failed
\* with the not-found condition and whether the call created a task
store_update_store(id, status, artifacts) ==
    /\ nreq < MaxStoreOps
    /\ nreq' = nreq + 1
    /\ tasks' = update_store(tasks, id, status, artifacts)
    /\ response' = Response(nreq + 1, StoreRequest("update_store", id),
                            IF NotFound(tasks, id) THEN "NotFoundError" ELSE "task",
                            "not_invoked",
                            id \notin DOMAIN tasks /\ id \in DOMAIN tasks',
                            IF NotFound(tasks, id) THEN <<>> ELSE <<status.state>>,
                            Len(artifacts))
    /\ UNCHANGED <<config, push_notification_infos, task_sse_subscribers, calls, runs,
                   invocations, notifications>>

StoreNext ==
    \/ \E id \in StoreIds : store_upsert_task(id)
    \/ \E id \in StoreIds, status \in StoreStatuses, artifacts \in {<<>>, <<Content>>} :
          store_update_store(id, status, artifacts)

SpecStore == StoreInit /\ [][StoreNext]_vars

----------------------------------------------------------------------------
\* The two paths on the same agent outcome: _process_agent_response handles
\* it for one task, then the body of the async-for loop of
\* _run_streaming_agent handles it for another.

SyncId == "t1"
StreamId == "t2"

\* what a path made of the item: the state it wrote to the store and the
\* number of artifacts it appended
Outcome(item, state, artifacts) ==
    [item |-> item, state |-> state, artifacts |-> artifacts]

\* on_send_task up to its return, the agent returning item: upsert_task,
\* WORKING, _process_agent_response
outcome_process_agent_response(item) ==
    /\ nreq < 2 * MaxOutcomes
    /\ response.request.method # "_process_agent_response"
    /\ nreq' = nreq + 1
    /\ LET r == StoreRequest("_process_agent_response", SyncId)
           m == response_status(item)
           working == update_store(upsert_task(tasks, r), r.id, TaskStatus(WORKING, None), <<>>)
       IN  /\ tasks' = update_store(working, r.id, m.status, m.artifacts)
           /\ response' = [Response(nreq + 1, r, "result", "returned", r.id \notin DOMAIN tasks,
                                    <<WORKING, m.status.state>>, Len(m.artifacts))
                              EXCEPT !.result = Outcome(item, tasks'[r.id].status.state,
                                                        Len(tasks'[r.id].artifacts)
                                                        - Len(working[r.id].artifacts))]
    /\ UNCHANGED <<config, push_notification_infos, task_sse_subscribers, calls, runs,
                   invocations, notifications>>

\* the update_store of one pass of _run_streaming_agent for the item the
\* other path has just handled, on a task on_send_task_subscribe upserted
outcome_run_streaming_agent ==
    /\ response.request.method = "_process_agent_response"
    /\ nreq' = nreq + 1
    /\ LET r == StoreRequest("_run_streaming_agent", StreamId)
           m == increment_status(response.result.item)
           upserted == upsert_task(tasks, r)
       IN  /\ tasks' = update_store(upserted, r.id, m.status, m.artifacts)
           /\ response' = [Response(nreq + 1, r, "stream", "returned", r.id \notin DOMAIN tasks,
                                    <<tasks'[r.id].status.state>>,
                                    Len(tasks'[r.id].artifacts) - Len(upserted[r.id].artifacts))
                              EXCEPT !.result = response.result]
    /\ UNCHANGED <<config, push_notification_infos, task_sse_subscribers, calls, runs,
                   invocations, notifications>>

OutcomeNext ==
    \/ \E item \in Increments : outcome_process_agent_response(item)
    \/ outcome_run_streaming_agent

SpecOutcome == Init /\ [][OutcomeNext]_vars

----------------------------------------------------------------------------
\* Properties.

\* the step in which a handler returns its response
Returns == response'.req # response.req

\* the send or subscribe request names output modes the agent does not
\* support, or a push config with an empty URL
FailsValidation(r) ==
    /\ r.method \in {"send", "subscribe"}
    /\ \/ r.acceptedOutputModes \cap SUPPORTED_CONTENT_TYPES = {}
       \/ r.pushNotification.present /\ r.pushNotification.url = ""

\* the request passes validation and carries a push config whose URL the
\* manager verifies and finds unverified
FailsVerification(r) ==
    /\ ~FailsValidation(r)
    /\ r.pushNotification.present
    /\ notification_sender_auth
    /\ ~verify_push_notification_url(r.pushNotification.url)

\* C1: once the stored state of a task is COMPLETED, FAILED or CANCELED, no
\* later step changes the stored status of that task.
C1_TerminalAbsorbing ==
    [][\A id \in DOMAIN tasks :
          tasks[id].status.state \in TerminalStates => tasks'[id].status = tasks[id].status]_vars

\* C2: a request failing validation is answered by an error, by on_send_task
\* and on_send_task_subscribe alike, in a step that leaves the task store, the
\* push-config store and the event queues as they were, spawns no call or run
\* and does not invoke the agent.
C2_ValidationRejects ==
    [][(Returns /\ FailsValidation(response'.request)) =>
          /\ response'.outcome \in {"IncompatibleTypesError", "InvalidParamsError"}
          /\ response'.agent = "not_invoked"
          /\ UNCHANGED <<tasks, push_notification_infos, task_sse_subscribers, calls,
                         runs, invocations, notifications>>]_vars

\* C2 witness: on_send_task_subscribe rejected a request failing validation
\* while a task was stored and a push config registered.
C2_Witness ==
    /\ response.request.method = "subscribe"
    /\ FailsValidation(response.request)
    /\ response.outcome = "IncompatibleTypesError"
    /\ response.request.id \in DOMAIN tasks
    /\ response.request.id \in DOMAIN push_notification_infos

\* C3: on_send_task with a push config whose URL fails verification returns
\* InvalidParams, has created no task, written nothing and not invoked the
\* agent; no on_send_task call with such a request gets past the registration.
C3_SendUnverifiedPush ==
    /\ \A c \in calls : ~FailsVerification(c.request)
    /\ (response.request.method = "send" /\ FailsVerification(response.request)) =>
          /\ response.outcome = "InvalidParamsError"
          /\ ~response.created
          /\ response.written = <<>>
          /\ response.agent = "not_invoked"

\* C3 witness: on_send_task returned InvalidParams for an unverified URL and
\* the store has no task for the id.
C3_Witness ==
    /\ response.request.method = "send"
    /\ FailsVerification(response.request)
    /\ response.outcome = "InvalidParamsError"
    /\ response.request.id \notin DOMAIN tasks
    /\ invocations = 0

\* C4: on_send_task_subscribe with a push config whose URL fails verification
\* returns InvalidParams in a step that leaves the task store unchanged.
C4_SubscribeUnverifiedPush ==
    [][(Returns /\ response'.request.method = "subscribe"
               /\ FailsVerification(response'.request)) =>
          /\ response'.outcome = "InvalidParamsError"
          /\ tasks' = tasks]_vars

\* C5: AgentTaskManager.on_send_task never ends by an exception leaving the
\* handler: it always returns a response.
C5_SendNeverRaises ==
    (manager = "AgentTaskManager" /\ response.request.method = "send") =>
        response.outcome # "raised"

\* C6: when agent.invoke raised during on_send_task, the handler returned
\* InternalError, having written WORKING only and appended no artifact.
C6_InvokeFailureCaught ==
    (response.request.method = "send" /\ response.agent = "raised") =>
        /\ response.outcome = "InternalError"
        /\ response.written = <<WORKING>>
        /\ response.artifacts = 0

\* C7: a streaming run in which an exception was raised has enqueued the error
\* event and stopped.
C7_RunFailureEnqueuesError ==
    \A run \in runs : run.raised # None => (run.error_enqueued /\ run.pc = "failed")

Last(seq) == seq[Len(seq)]

IsFinal(event) == event.type = "status" /\ event.final

StatusEvents(seq) == SelectSeq(seq, LAMBDA e : e.type = "status")

\* C8: in every subscription a status event with final=true is the last event
\* of the stream: nothing is queued or delivered behind it, whatever the runs
\* enqueue afterwards, and a consumer that ended has received it last.
C8_FinalIsLast ==
    \A id \in DOMAIN task_sse_subscribers :
        LET q == task_sse_subscribers[id]
            all == q.delivered \o q.buf
        IN  /\ \A i \in 1..Len(all) : IsFinal(all[i]) => i = Len(all)
            /\ q.consumer = "ended" =>
                  q.buf = <<>> /\ q.delivered # <<>> /\ IsFinal(Last(q.delivered))

\* C8 witness: the consumer ended on the final event of the first increment,
\* and the run's enqueue for its second increment was refused.
C8_Witness ==
    \E run \in runs :
        /\ run.pulled = 2
        /\ run.raised = "enqueue"
        /\ task_sse_subscribers[run.id].sub = run.req
        /\ task_sse_subscribers[run.id].consumer = "ended"
        /\ Last(task_sse_subscribers[run.id].delivered).inc = 1

\* C9: the consumer receives the events of a run in the order the run
\* produced them: by increment, and within an increment the artifact event
\* immediately before the status event.
C9_ProductionOrder ==
    \A id \in DOMAIN task_sse_subscribers :
        LET d == task_sse_subscribers[id].delivered
        IN  /\ \A i, j \in 1..Len(d) :
                  (i < j /\ d[i].run = d[j].run) =>
                      \/ d[i].inc < d[j].inc
                      \/ d[i].inc = d[j].inc /\ d[i].type = "artifact" /\ d[j].type = "status"
            /\ \A i \in 1..Len(d) :
                  (d[i].type = "artifact" /\ i < Len(d)) =>
                      /\ d[i + 1].type = "status"
                      /\ d[i + 1].run = d[i].run
                      /\ d[i + 1].inc = d[i].inc
            /\ \A i \in 1..Len(d) :
                  (d[i].type = "status" /\ d[i].state = COMPLETED) =>
                      /\ i > 1
                      /\ d[i - 1].type = "artifact"
                      /\ d[i - 1].run = d[i].run
                      /\ d[i - 1].inc = d[i].inc

\* C9 witness: a consumer has received the events of two runs, among them an
\* artifact event and the status event behind it.
C9_Witness ==
    \E id \in DOMAIN task_sse_subscribers :
        LET d == task_sse_subscribers[id].delivered
        IN  /\ Len(d) = 3
            /\ d[1].run # d[3].run
            /\ d[2].type = "artifact"
            /\ d[3].type = "status"

\* the agent run of a subscription went the way A2EMathCurrencyAgent.stream
\* goes: intermediate increments, then the completed one, then the end
FinishedNormally(run) ==
    run.pc = "done" /\ run.conforms /\ run.last = COMPLETED

\* C10: for a subscription on a fresh task id whose agent run conforms to the
\* agent's stream, the status events delivered are working and not final,
\* except that the last may be the final completed one; once the run finished
\* normally and the consumer has taken every event, that one ended the sequence.
C10_StreamShape ==
    \A run \in runs :
        (/\ run.fresh
         /\ run.conforms
         /\ task_sse_subscribers[run.id].sub = run.req) =>
            LET q == task_sse_subscribers[run.id]
                st == StatusEvents(q.delivered)
            IN  /\ \A i \in 1..Len(st) :
                      \/ st[i].state = WORKING /\ ~st[i].final
                      \/ i = Len(st) /\ st[i].state = COMPLETED /\ st[i].final
                /\ (/\ FinishedNormally(run)
                    /\ q.buf = <<>>
                    /\ q.consumer # "detached"
                    /\ q.resumed_at = -1) =>
                      /\ q.consumer = "ended"
                      /\ st # <<>>
                      /\ Last(q.delivered) = Last(st)
                      /\ Last(st).state = COMPLETED /\ Last(st).final

\* C10 witness: the run yielded a working and the completed increment and
\* ended, and the consumer received working, the artifact and the final event.
C10_Witness ==
    \E run \in runs :
        /\ run.fresh
        /\ FinishedNormally(run)
        /\ run.pulled = 2
        /\ task_sse_subscribers[run.id].sub = run.req
        /\ task_sse_subscribers[run.id].consumer = "ended"
        /\ Len(task_sse_subscribers[run.id].delivered) = 3

\* C11: a task id has one consumer slot: on_send_task_subscribe for an id
\* whose consumer is attached is answered by an error and leaves the queue and
\* the runs as they were; on_resubscribe_to_task after the consumer detached
\* returns the stream with the consumer attached to the same backlog, nothing
\* received re-delivered; and within a subscription the consumer receives, one
\* at a time, the event at the head of the backlog.
C11_OneConsumer ==
    [][/\ (/\ Returns
           /\ response'.request.method = "subscribe"
           /\ Attached(task_sse_subscribers, response'.request.id)) =>
              /\ response'.outcome \in {"InternalError", "InvalidParamsError",
                                        "IncompatibleTypesError"}
              /\ UNCHANGED <<task_sse_subscribers, runs, invocations>>
       /\ (/\ Returns
           /\ response'.request.method = "resubscribe"
           /\ response'.request.id \in DOMAIN task_sse_subscribers
           /\ task_sse_subscribers[response'.request.id].consumer = "detached") =>
              LET q == task_sse_subscribers[response'.request.id]
                  p == task_sse_subscribers'[response'.request.id]
              IN  /\ response'.outcome = "stream"
                  /\ p.consumer = "attached"
                  /\ p.sub = q.sub
                  /\ p.delivered = q.delivered
                  /\ p.buf = q.buf
       /\ \A id \in DOMAIN task_sse_subscribers :
              LET q == task_sse_subscribers[id]
                  p == task_sse_subscribers'[id]
              IN  (p.sub = q.sub /\ p.delivered # q.delivered) =>
                      /\ q.consumer = "attached"
                      /\ q.buf # <<>>
                      /\ p.delivered = Append(q.delivered, Head(q.buf))
                      /\ p.buf = Tail(q.buf)]_vars

\* C11 witness: the consumer received an event, detached, resubscribed and
\* then received the next events up to the final one.
C11_Witness ==
    \E id \in DOMAIN task_sse_subscribers :
        LET q == task_sse_subscribers[id]
        IN  /\ q.resumed_at >= 1
            /\ Len(q.delivered) > q.resumed_at
            /\ q.consumer = "ended"
            /\ response.request.method = "resubscribe"
            /\ response.outcome = "stream"

\* the events of the run that are queued for or were received by the consumer
EventsOf(run) ==
    IF run.id \in DOMAIN task_sse_subscribers
    THEN SelectSeq(task_sse_subscribers[run.id].delivered \o task_sse_subscribers[run.id].buf,
                   LAMBDA e : e.run = run.req /\ e.type # "error")
    ELSE <<>>

\* the states written to the store for the task, oldest first
Written(task) == Append([i \in 1..Len(task.history) |-> task.history[i].state], task.status.state)

\* C12: in a streaming run the update_store of an increment precedes its push
\* notification, which precedes the enqueue of its events, and the increment
\* after it is pulled only when all three are done; every event of the run in
\* the queue belongs to an increment already stored and notified, and the
\* state a status event carries has been written to the store.
C12_MutateNotifyEnqueue ==
    \A run \in runs :
        /\ run.enqueued <= run.notified
        /\ run.notified <= run.stored
        /\ run.stored <= run.pulled
        /\ run.pulled <= run.enqueued + 1
        /\ \A i \in 1..Len(EventsOf(run)) :
              LET e == EventsOf(run)[i]
              IN  /\ e.inc <= run.stored
                  /\ e.inc <= run.notified
                  /\ run.id \in DOMAIN tasks
                  /\ e.type = "status" =>
                        \E k \in 1..Len(Written(tasks[run.id])) :
                            Written(tasks[run.id])[k] = e.state

\* C12 witness: a run is suspended in the notification of its second
\* increment: the store and the notification log have it, the queue has the
\* event of the first increment only.
C12_Witness ==
    \E run \in runs :
        /\ run.pc = "notifying"
        /\ run.stored = 2 /\ run.notified = 2 /\ run.enqueued = 1
        /\ Len(notifications[run.id].sent) >= 2
        /\ Len(EventsOf(run)) = 1
        /\ tasks[run.id].status.state = run.last

\* C13: the calls for one task id are serialized: when an on_send_task call
\* writes its final status, no other call or run has written to the task
\* since that call wrote WORKING, and no other on_send_task call for the id
\* is between its two updates.
C13_Serialized ==
    [][\A c \in calls :
          (c \notin calls' /\ tasks'[c.request.id] # tasks[c.request.id]) =>
              /\ Len(tasks[c.request.id].history) = c.wrote_at
              /\ \A d \in calls : d.request.id = c.request.id => d = c]_vars

\* the consumer of the task is detached
Detached(queues, task_id) ==
    task_id \in DOMAIN queues /\ queues[task_id].consumer = "detached"

\* C14: the step in which a consumer detaches changes no run and no task; a
\* run that processes an increment, or resumes its pass, while the consumer of
\* its task is detached raises nothing and goes on, its update_store leaves
\* the store in the state of that increment, and its enqueues leave the queue
\* as it was.
C14_DetachKeepsRun ==
    [][/\ (\E id \in DOMAIN task_sse_subscribers :
               /\ ~Detached(task_sse_subscribers, id)
               /\ Detached(task_sse_subscribers', id)) =>
              UNCHANGED <<runs, tasks, notifications>>
       /\ \A run \in runs, next \in runs' :
              (/\ next.req = run.req
               /\ next # run
               /\ run.pc \in {"streaming", "notifying"}
               /\ next.raised # "stream"
               /\ next.pc # "done"
               /\ Detached(task_sse_subscribers, run.id)) =>
                  /\ next.raised = None
                  /\ next.pc \in {"streaming", "notifying"}
                  /\ next.stored = run.stored + 1 =>
                        tasks'[run.id].status.state = next.last
                  /\ UNCHANGED task_sse_subscribers]_vars

\* C14 witness: the consumer received the event of the first increment and
\* detached; the run processed the completed increment and ended, the store
\* is COMPLETED and the queue holds nothing of the second increment.
C14_Witness ==
    \E run \in runs :
        /\ run.pc = "done"
        /\ run.pulled = 2
        /\ run.raised = None
        /\ run.last = COMPLETED
        /\ Detached(task_sse_subscribers, run.id)
        /\ task_sse_subscribers[run.id].sub = run.req
        /\ Len(task_sse_subscribers[run.id].delivered) = 1
        /\ task_sse_subscribers[run.id].buf = <<>>
        /\ tasks[run.id].status.state = COMPLETED

\* C15: when the URL of a request's push config fails verification,
\* set_push_notification_info reports failure - the handler answers
\* InvalidParams - and the push-config store is the same as before the call,
\* an earlier config of the task included.
C15_UnverifiedNotPersisted ==
    [][(Returns /\ FailsVerification(response'.request)) =>
          /\ response'.outcome = "InvalidParamsError"
          /\ push_notification_infos' = push_notification_infos]_vars

\* C15 witness: a request with an unverified URL was refused for a task that
\* keeps the verified config an earlier request registered.
C15_Witness ==
    /\ FailsVerification(response.request)
    /\ response.outcome = "InvalidParamsError"
    /\ response.request.id \in DOMAIN push_notification_infos
    /\ push_notification_infos[response.request.id] = "http://verified"

\* C16: when deliveries of a task's push notifications have failed, every
\* notification was still sent once only - no more notifications than
\* update_store calls, each carrying a state written to the store -, no run of
\* the task failed in the notification and every run has enqueued the events
\* of the increments it processed, and on_send_task whose agent returned
\* answered with the task after both of its updates.
C16_PushBestEffort ==
    \A id \in TaskIds :
        notifications[id].failed =>
            /\ id \in DOMAIN tasks
            /\ Len(notifications[id].sent) <= Len(tasks[id].history)
            /\ \A i \in 1..Len(notifications[id].sent) :
                  \E k \in 1..Len(Written(tasks[id])) :
                      Written(tasks[id])[k] = notifications[id].sent[i]
            /\ \A run \in runs :
                  run.id = id =>
                      /\ run.raised \in {None, "query", "stream", "enqueue"}
                      /\ (run.pc \in {"streaming", "done"} /\ run.raised = None) =>
                            run.enqueued = run.pulled
            /\ (/\ response.request.method = "send"
                /\ response.request.id = id
                /\ response.agent = "returned") =>
                  /\ response.outcome = "result"
                  /\ Len(response.written) = 2

\* C16 witness: both notifications of an on_send_task call went to a URL that
\* no longer accepts them; the call returned the completed task.
C16_Witness ==
    \E id \in DOMAIN tasks :
        /\ notifications[id].failed
        /\ notifications[id].sent = <<WORKING, COMPLETED>>
        /\ response.request.method = "send"
        /\ response.outcome = "result"
        /\ response.written = <<WORKING, COMPLETED>>
        /\ tasks[id].status.state = COMPLETED

\* C17: update_store for an id that is not in the store fails with the
\* not-found condition, writes nothing and creates no task: the id is still
\* unknown afterwards; it fails for unknown ids only.
C17_UpdateUnknownFails ==
    response.request.method = "update_store" =>
        /\ ~response.created
        /\ response.request.id \notin DOMAIN tasks => response.outcome = "NotFoundError"
        /\ response.outcome = "NotFoundError" =>
              /\ response.request.id \notin DOMAIN tasks
              /\ response.written = <<>>

\* C17 witness: update_store failed for an unknown id while the store holds
\* the task of another id, already updated.
C17_Witness ==
    /\ response.request.method = "update_store"
    /\ response.outcome = "NotFoundError"
    /\ response.request.id = "t2"
    /\ DOMAIN tasks = {"t1"}
    /\ tasks["t1"].history # <<>>

\* C18: the upsert_task of a handler creates the task of an unknown id with
\* state SUBMITTED, empty history and no artifact, and leaves the task of a
\* known id as it is: on_send_task_subscribe past its validation changes the
\* store in no other way, and the WORKING update of on_send_task finds the
\* stored status, history and artifacts of a known task untouched.
C18_UpsertKeeps ==
    [][/\ (/\ Returns
           /\ response'.request.method = "subscribe"
           /\ ~FailsValidation(response'.request)) =>
              LET id == response'.request.id
              IN  IF id \in DOMAIN tasks
                  THEN tasks' = tasks
                  ELSE /\ DOMAIN tasks' = DOMAIN tasks \cup {id}
                       /\ tasks'[id].status.state = SUBMITTED
                       /\ tasks'[id].history = <<>>
                       /\ tasks'[id].artifacts = <<>>
       /\ \A c \in calls' \ calls :
              LET id == c.request.id
              IN  /\ tasks'[id].status.state = WORKING
                  /\ IF id \in DOMAIN tasks
                     THEN /\ tasks'[id].history = Append(tasks[id].history, tasks[id].status)
                          /\ tasks'[id].artifacts = tasks[id].artifacts
                     ELSE /\ Len(tasks'[id].history) = 1
                          /\ tasks'[id].history[1].state = SUBMITTED
                          /\ tasks'[id].artifacts = <<>>]_vars

\* C18 witness: a second on_send_task arrived for a task whose first call is
\* still suspended; the history holds SUBMITTED and the first call's WORKING.
C18_Witness ==
    \E c, d \in calls :
        /\ c # d
        /\ c.request.id = d.request.id
        /\ c.created /\ ~d.created
        /\ Len(tasks[c.request.id].history) = 2
        /\ tasks[c.request.id].history[1].state = SUBMITTED
        /\ tasks[c.request.id].history[2].state = WORKING
        /\ tasks[c.request.id].status.state = WORKING

\* C19: every step keeps the one task of every stored id, and either leaves
\* it as it is or appends the status it replaces to the history and at most
\* one artifact to the artifacts: histories and artifact lists only grow at
\* their end.
C19_HistoryAppendOnly ==
    [][\A id \in DOMAIN tasks :
          /\ id \in DOMAIN tasks'
          /\ \/ tasks'[id] = tasks[id]
             \/ /\ tasks'[id].history = Append(tasks[id].history, tasks[id].status)
                /\ Len(tasks'[id].artifacts) \in {Len(tasks[id].artifacts),
                                                  Len(tasks[id].artifacts) + 1}
                /\ SubSeq(tasks'[id].artifacts, 1, Len(tasks[id].artifacts))
                      = tasks[id].artifacts]_vars

\* C19 witness: after two completed sends the history of the task holds the
\* four statuses that were replaced, in order, and both artifacts are kept.
C19_Witness ==
    \E id \in DOMAIN tasks :
        /\ Len(tasks[id].history) = 4
        /\ tasks[id].history[1].state = SUBMITTED
        /\ tasks[id].history[2].state = WORKING
        /\ tasks[id].history[3].state = COMPLETED
        /\ tasks[id].history[4].state = WORKING
        /\ tasks[id].status.state = COMPLETED
        /\ Len(tasks[id].artifacts) = 2

\* C20: on_send_task for a fresh task id that returns a result returns the
\* task as the agent's outcome determines it: COMPLETED with exactly one
\* artifact, the agent's content, when the outcome requires no user input;
\* INPUT_REQUIRED with the content as message and no artifact when it does.
C20_SendResult ==
    (/\ response.request.method = "send"
     /\ response.created
     /\ response.outcome = "result") =>
        IF response.result.require_user_input
        THEN /\ response.result.state = INPUT_REQUIRED
             /\ response.result.message = Content
             /\ response.result.artifacts = <<>>
        ELSE /\ response.result.state = COMPLETED
             /\ response.result.artifacts = <<Content>>

\* the same of a call that was the only request for its task id
C20_SendResultAlone ==
    nreq = 1 => C20_SendResult

\* C21: on_resubscribe_to_task for a task whose consumer detached returns the
\* stream with the consumer attached to the queue the task already has; for a
\* task id without a queue it returns InternalError - it does not raise - and
\* leaves the event queues, the task store, the runs and the calls as they
\* were: no queue and no task is created.
C21_ResubscribeUnknown ==
    [][(Returns /\ response'.request.method = "resubscribe") =>
          LET id == response'.request.id
          IN  IF id \notin DOMAIN task_sse_subscribers
              THEN /\ response'.outcome = "InternalError"
                   /\ UNCHANGED <<tasks, task_sse_subscribers, runs, calls,
                                  push_notification_infos, invocations>>
              ELSE /\ response'.outcome = "stream"
                   /\ DOMAIN task_sse_subscribers' = DOMAIN task_sse_subscribers
                   /\ task_sse_subscribers'[id].sub = task_sse_subscribers[id].sub
                   /\ Detached(task_sse_subscribers, id) =>
                         Attached(task_sse_subscribers', id)
                   /\ UNCHANGED <<tasks, runs, calls>>]_vars

\* C21 witness: on_resubscribe_to_task returned InternalError for an id that
\* has a task, stored by an on_send_task call, and no queue.
C21_Witness ==
    /\ response.request.method = "resubscribe"
    /\ response.outcome = "InternalError"
    /\ response.request.id \in DOMAIN tasks
    /\ response.request.id \notin DOMAIN task_sse_subscribers
    /\ calls # {}

\* the step in which update_store sets COMPLETED on the task of id that is as
\* upsert_task created it leaves the task COMPLETED with a history of one
\* status, whose state is prior
UpsertThenCompleted(id, prior) ==
    (/\ id \in DOMAIN tasks
     /\ tasks[id] = NewTask
     /\ Returns
     /\ response'.request = StoreRequest("update_store", id)
     /\ response'.written = <<COMPLETED>>) =>
        /\ tasks'[id].status.state = COMPLETED
        /\ Len(tasks'[id].history) = 1
        /\ tasks'[id].history[1].state = prior

\* C22 as stated: for a task id never seen before, upsert_task followed by
\* update_store to COMPLETED leaves the task COMPLETED with a history that
\* holds exactly the prior status, WORKING.
C22_HistoryIsWorking ==
    [][\A id \in StoreIds : UpsertThenCompleted(id, WORKING)]_vars

\* C22 amended: for a task id never seen before, upsert_task followed by
\* update_store to COMPLETED leaves the task COMPLETED with a history that
\* holds exactly the prior status, which is the SUBMITTED status upsert_task
\* created the task with.
C22_HistoryIsSubmitted ==
    [][\A id \in StoreIds : UpsertThenCompleted(id, SUBMITTED)]_vars

\* C22 witness: update_store completed a task right after its upsert_task;
\* its history is the SUBMITTED status alone.
C22_Witness ==
    /\ response.request.method = "update_store"
    /\ response.written = <<COMPLETED>>
    /\ response.request.id \in DOMAIN tasks
    /\ tasks[response.request.id].status.state = COMPLETED
    /\ tasks[response.request.id].history = <<NewTask.status>>

\* C23: a streaming run that has processed an increment mapped to
\* INPUT_REQUIRED or COMPLETED pulls no further increment and performs no
\* further update_store, notification or enqueue, whatever the agent's stream
\* yields next.
C23_RunEndsAtFinal ==
    [][\A run \in runs, next \in runs' :
          (/\ next.req = run.req
           /\ run.pc = "streaming"
           /\ run.last \in {INPUT_REQUIRED, COMPLETED}) =>
              /\ next.pulled = run.pulled
              /\ next.stored = run.stored
              /\ next.notified = run.notified
              /\ next.enqueued = run.enqueued
              /\ tasks'[run.id] = tasks[run.id] \/ runs' = runs]_vars

\* C24: the stored state of a task leaves SUBMITTED only to WORKING, on the
\* synchronous and on the streaming path: no step takes a task from SUBMITTED
\* to INPUT_REQUIRED or COMPLETED; and an on_send_task call that reaches the
\* invocation of the agent has written WORKING and sent its notification.
C24_SubmittedToWorking ==
    [][/\ \A id \in DOMAIN tasks :
              tasks[id].status.state = SUBMITTED =>
                  tasks'[id].status.state \in {SUBMITTED, WORKING}
       /\ \A c \in calls' \ calls :
              /\ tasks'[c.request.id].status.state = WORKING
              /\ notifications' =
                    send_task_notification(notifications, push_notification_infos',
                                           c.request.id, WORKING)]_vars

\* the step is the first write to the store of a request received after the
\* others: the WORKING update of an on_send_task call, or the update_store
\* of the first increment of a streaming run
FirstWrite ==
    \/ calls' \ calls # {}
    \/ \E run \in runs, next \in runs' :
          next.req = run.req /\ run.stored = 0 /\ next.stored = 1

\* the on_send_task calls of a task in INPUT_REQUIRED: the call writes
\* WORKING, and its final update writes COMPLETED or INPUT_REQUIRED, each
\* appending the status it replaces to the history
C25_SendResumes ==
    [][/\ \A c \in calls' \ calls :
              (/\ c.request.id \in DOMAIN tasks
               /\ tasks[c.request.id].status.state = INPUT_REQUIRED) =>
                  /\ tasks'[c.request.id].status.state = WORKING
                  /\ tasks'[c.request.id].history =
                        Append(tasks[c.request.id].history, tasks[c.request.id].status)
       /\ \A c \in calls \ calls' :
              tasks' # tasks =>
                  /\ tasks'[c.request.id].status.state \in {COMPLETED, INPUT_REQUIRED}
                  /\ tasks'[c.request.id].history =
                        Append(tasks[c.request.id].history, tasks[c.request.id].status)]_vars

\* C25: a task whose stored state is INPUT_REQUIRED accepts a later
\* on_send_task or on_send_task_subscribe: the first write of that request
\* moves the task to WORKING, keeping the earlier history, and from there the
\* task goes to COMPLETED or INPUT_REQUIRED by the agent's outcome.
C25_InputRequiredResumes ==
    [][\A id \in DOMAIN tasks :
          (/\ tasks[id].status.state = INPUT_REQUIRED
           /\ tasks'[id] # tasks[id]
           /\ FirstWrite) =>
              /\ tasks'[id].status.state = WORKING
              /\ tasks'[id].history = Append(tasks[id].history, tasks[id].status)]_vars

\* the run is over: its agent's stream ended, or an exception ended it
Over(run) == run.pc \in {"done", "failed", "crashed"}

\* the event ends the sequence of the consumer that receives it
Terminating(event) == IsFinal(event) \/ event.type = "error"

\* C26: every subscription terminates: once the runs of the task are over -
\* the agent's stream was finite and the runner was scheduled - and the
\* attached consumer of on_send_task_subscribe has taken every event queued
\* for it, it has received a terminating event, a final status event or an
\* error event; it is not left waiting for an event no one will enqueue.
C26_SubscriptionTerminates ==
    \A id \in DOMAIN task_sse_subscribers :
        LET q == task_sse_subscribers[id]
        IN  (/\ q.consumer = "attached"
             /\ q.resumed_at = -1
             /\ q.buf = <<>>
             /\ \A run \in runs : run.id = id => Over(run)) =>
                /\ q.delivered # <<>>
                /\ Terminating(Last(q.delivered))

\* C27: the state of every stored task is SUBMITTED, WORKING, INPUT_REQUIRED
\* or COMPLETED, and so is every state a task had: neither manager writes
\* FAILED or CANCELED to the store, also when the agent raised.
C27_FourStates ==
    \A id \in DOMAIN tasks :
        \A k \in 1..Len(Written(tasks[id])) :
            Written(tasks[id])[k] \in {SUBMITTED, WORKING, INPUT_REQUIRED, COMPLETED}

\* C27 witness: agent.invoke raised in an on_send_task call and the agent's
\* stream raised in a run of the same task, whose stored state is WORKING.
C27_Witness ==
    /\ response.request.method = "send"
    /\ response.agent = "raised"
    /\ \E run \in runs :
          /\ run.id = response.request.id
          /\ run.raised = "stream"
          /\ run.pulled = 1
    /\ tasks[response.request.id].status.state = WORKING

\* both paths have handled the item of the response
BothHandled == response.request.method = "_run_streaming_agent"

\* the state and the artifacts the synchronous path made of the item are
\* those the streaming path made of it
PathsAgree ==
    /\ response.result.state = Last(response.written)
    /\ response.result.artifacts = response.artifacts
    /\ tasks[SyncId].status.state = tasks[StreamId].status.state

\* C28 as stated: for every combination of is_task_complete and
\* require_user_input, _process_agent_response and _run_streaming_agent write
\* the same state to the store and attach an artifact in the same cases.
C28_PathsAgreeAlways ==
    BothHandled => PathsAgree

\* C28 amended: for every combination of is_task_complete and
\* require_user_input but the one with both false - intermediate progress,
\* which the streaming path stores as WORKING and the synchronous path as
\* COMPLETED with an artifact -, both paths write the same state to the store
\* and attach an artifact in the same cases.
C28_PathsAgree ==
    (BothHandled /\ response.result.item # Increment(FALSE, FALSE)) => PathsAgree

\* C28 witness: both paths handled an increment with both flags set, after
\* one of intermediate progress, and stored INPUT_REQUIRED without artifact.
C28_Witness ==
    /\ BothHandled
    /\ nreq = 4
    /\ response.result.item = Increment(TRUE, TRUE)
    /\ tasks[SyncId].status.state = INPUT_REQUIRED
    /\ tasks[StreamId].status.state = INPUT_REQUIRED
    /\ response.artifacts = 0
    /\ Len(tasks[SyncId].artifacts) = 1
    /\ Len(tasks[StreamId].artifacts) = 0

\* the response is an error of on_send_task_subscribe, or the validation or
\* push-verification error of on_send_task
ErrorResponse(resp) ==
    \/ resp.request.method = "subscribe" /\ resp.outcome \notin {"stream", None}
    \/ /\ resp.request.method = "send"
       /\ resp.outcome \in {"IncompatibleTypesError", "InvalidParamsError"}

\* C29: the step in which on_send_task_subscribe returns an error, or
\* on_send_task its validation or push-verification error, spawns no run and
\* suspends no call, invokes no agent, updates no stored task, sends no
\* notification and leaves the event queues as they were; and no run, call,
\* queue or event ever belongs to a request answered that way.
C29_ErrorSpawnsNothing ==
    [][/\ (Returns /\ ErrorResponse(response')) =>
              /\ UNCHANGED <<runs, calls, invocations, notifications, task_sse_subscribers>>
              /\ \A id \in DOMAIN tasks : tasks'[id] = tasks[id]
       /\ ErrorResponse(response) =>
              /\ \A run \in runs' : run.req # response.req
              /\ \A c \in calls' : c.req # response.req
              /\ \A id \in DOMAIN task_sse_subscribers' :
                    LET q == task_sse_subscribers'[id]
                    IN  /\ q.sub # response.req
                        /\ \A i \in 1..Len(q.buf) : q.buf[i].run # response.req]_vars

\* C29 witness: on_send_task_subscribe was refused for a task whose consumer
\* is attached; the only run is the one of the earlier subscription, which
\* has gone on streaming since.
C29_Witness ==
    /\ response.request.method = "subscribe"
    /\ response.outcome = "InternalError"
    /\ response.req = 2
    /\ invocations = 1
    /\ \E run \in runs : runs = {run} /\ run.req = 1 /\ run.pulled = 2

\* everything queued for or received by the consumer of the task, but error
\* events
AllEvents(task_id) ==
    SelectSeq(task_sse_subscribers[task_id].delivered \o task_sse_subscribers[task_id].buf,
              LAMBDA e : e.type # "error")

\* C30: the queue of a subscription is attached when its run is spawned, so
\* the run loses no event: while the queue is the one on_send_task_subscribe
\* set up for the run and its consumer has not detached, the events of the
\* run in the consumer's sequence are those of every increment the run has
\* enqueued, from its first increment on and in order; and for a fresh task
\* the consumer's sequence holds the events of that run and no other.
C30_NoEventLost ==
    \A run \in runs :
        /\ run.id \in DOMAIN task_sse_subscribers
        /\ task_sse_subscribers[run.id].sub >= run.req
        /\ LET q == task_sse_subscribers[run.id]
               st == StatusEvents(EventsOf(run))
           IN  (/\ q.sub = run.req
                /\ q.resumed_at = -1
                /\ q.consumer # "detached") =>
                   /\ Len(st) = run.enqueued
                   /\ \A i \in 1..Len(st) : st[i].inc = i
                   /\ EventsOf(run) # <<>> => EventsOf(run)[1].inc = 1
                   /\ run.fresh => AllEvents(run.id) = EventsOf(run)

\* C30 witness: the consumer of a fresh subscription has received the event
\* of the run's first increment; the artifact event and the final event of
\* the second wait in the queue.
C30_Witness ==
    \E run \in runs :
        /\ run.fresh
        /\ run.enqueued = 2
        /\ task_sse_subscribers[run.id].sub = run.req
        /\ task_sse_subscribers[run.id].consumer = "attached"
        /\ task_sse_subscribers[run.id].resumed_at = -1
        /\ Len(task_sse_subscribers[run.id].delivered) = 1
        /\ task_sse_subscribers[run.id].delivered[1].inc = 1
        /\ Len(task_sse_subscribers[run.id].buf) = 2
        /\ IsFinal(Last(task_sse_subscribers[run.id].buf))

====
